---------------------------- MODULE Spec2Model ----------------------------
(***************************************************************************)
(* The hustlrs backend: the store (users, tasks, chats, chat members,     *)
(* messages, notifications) and the handlers that read and mutate it.      *)
(*                                                                         *)
(*   src/src/routes/tasks.js   POST /, PUT /:id/assign, PUT /:id/status    *)
(*   src/src/routes/tasks.ts   PUT /:id, DELETE /:id                       *)
(*   src/src/routes/chat.js    lines 1-378, the Prisma chat router:        *)
(*                             GET and POST /:chatId/messages              *)
(*   src/src/routes/users.js   the router and its notification routes      *)
(*   src/src/routes/chat.ts    POST and GET /:chatId/messages,             *)
(*                             POST /:chatId/messages/read                 *)
(*   src/src/routes/auth.routes.js  lines 323-366, socket send_message     *)
(*   src/src/routes/tasks.ts   POST /                                      *)
(*   src/src/services/smsService.js  chatService.getOrCreateChat           *)
(*   src/unnamed/part_004      the socket handlers of the Prisma server    *)
(*                                                                         *)
(* Every `await` on the store is a point where another request can run,    *)
(* so assign and updateStatus, which issue several store calls, are one    *)
(* action per store call.  The code between two awaits is synchronous and  *)
(* belongs to the action of the await that precedes it.  PUT /:id and      *)
(* DELETE /:id issue a single write after an ownership read; they are one  *)
(* action each.                                                            *)
(*                                                                         *)
(* Row level security of the hosted store is not modelled: the backend is  *)
(* taken to have read and write access to the tables it uses.              *)
(***************************************************************************)
EXTENDS Naturals, FiniteSets, Sequences, TLC

(* ------------------------------ bounds -------------------------------- *)
NumUsers == 3
MaxTasks == 1
MaxRequests == 4
MaxChatRequests == 3
MaxFailures == 1
MaxPage == 2
MaxLimit == 2

(* ----------------------------- constants ------------------------------ *)
MinBudget == 100
MaxContentLength == 1000

Users == 1..NumUsers
NullUser == 0
TaskIds == 1..MaxTasks
Budgets == {50, 100}

TaskStatus == {"OPEN", "ASSIGNED", "IN_PROGRESS", "COMPLETED", "CANCELLED"}
UpdatableStatus == {"IN_PROGRESS", "COMPLETED", "CANCELLED"}

\* The columns of public.tasks; an update naming any other column is
\* refused by the store.
TaskColumns ==
    {"title", "description", "category", "budget", "deadline", "status",
     "priority", "latitude", "longitude", "address", "city", "state",
     "image_urls", "poster_id", "hustler_id"}

\* The columns the model keeps.
ModelledColumns == {"status", "poster_id", "hustler_id", "budget"}

VARIABLES
    users,          \* user id -> [user_type, tasks_completed, total_earnings, tasks_posted]
    tasks,          \* task id -> [status, poster_id, hustler_id, budget], existing rows only
    nextTaskId,     \* ids are never reused
    chats,          \* set of [id, task_id]
    nextChatId,
    chat_members,   \* set of [chat_id, user_id]
    notifications,  \* sequence of [user_id, type, task_id, chat_id, is_read], insertion order
    messages,       \* sequence of [id, chat_id, sender_id, content], creation order
    nextMessageId,
    chat_updated_at, \* chat id -> times a handler rewrote chats.updated_at
    scan,           \* the pages a client has fetched one after another, or NoScan
    inflight,       \* user id -> the request of that user between two awaits, or Idle
    lastResponse,   \* the response or socket event sent last, or NoResponse
    nreq,           \* requests issued so far
    failures,       \* store writes that failed so far
    rooms,          \* user id -> the rooms the user's socket is in, or Offline
    received        \* user id -> the events delivered to the user's socket

vars == <<users, tasks, nextTaskId, chats, nextChatId, chat_members,
          notifications, messages, nextMessageId, chat_updated_at, scan,
          inflight, lastResponse, nreq, failures, rooms, received>>

store == <<users, tasks, nextTaskId, chats, nextChatId, chat_members,
           notifications, messages, nextMessageId, chat_updated_at>>

\* What the chat routes write and the task routes of tasks.js never touch.
chatStore == <<messages, nextMessageId, chat_updated_at, scan>>

\* The sockets: untouched by every HTTP handler that emits nothing.
realtime == <<rooms, received>>

Idle == [op |-> "idle"]
NoResponse == [op |-> "none"]
NoScan == [actor |-> NullUser]
NullChat == 0

\* The rooms of a user without a socket connection.  A room is a string.
Offline == {}

\* Users registered before the run: one of each role, repeating.
InitialUserType(u) ==
    CASE u % 3 = 1 -> "CUSTOMER"
      [] u % 3 = 2 -> "HUSTLER"
      [] OTHER     -> "BOTH"

Init ==
    /\ users = [u \in Users |->
                  [user_type |-> InitialUserType(u), tasks_completed |-> 0,
                   total_earnings |-> 0, tasks_posted |-> 0]]
    /\ tasks = << >>
    /\ nextTaskId = 1
    /\ chats = {}
    /\ nextChatId = 1
    /\ chat_members = {}
    /\ notifications = << >>
    /\ messages = << >>
    /\ nextMessageId = 1
    /\ chat_updated_at = << >>
    /\ scan = NoScan
    /\ inflight = [u \in Users |-> Idle]
    /\ lastResponse = NoResponse
    /\ nreq = 0
    /\ failures = 0
    /\ rooms = [u \in Users |-> Offline]
    /\ received = [u \in Users |-> {}]

(* ------------------------------ helpers ------------------------------- *)

\* A store write either goes through or throws.
WriteOutcomes == IF failures < MaxFailures THEN {TRUE, FALSE} ELSE {TRUE}

Failed(ok) == IF ok THEN failures ELSE failures + 1

Response(op, t, code, error) ==
    [op |-> op, task |-> t, code |-> code, error |-> error]

\* The handler answers user u and its request ends.
Respond(u, r) ==
    /\ lastResponse' = [actor |-> u, op |-> r.op, task |-> r.task,
                        code |-> r.code, error |-> r.error]
    /\ inflight' = [inflight EXCEPT ![u] = Idle]

\* A new request of user u enters its handler.
Accept(u) ==
    /\ inflight[u] = Idle
    /\ nreq < MaxRequests
    /\ nreq' = nreq + 1

ChatOfTask(cs, t) == {c \in cs : c.task_id = t}
MembersOf(ms, c) == {m.user_id : m \in {x \in ms : x.chat_id = c.id}}

\* `chat_${chatId}` and `user_${userId}`
RoomOfChat(c) == "chat_" \o ToString(c)
RoomOfUser(u) == "user_" \o ToString(u)

\* The sockets that are in a room.
InRoom(room) == {k \in Users : room \in rooms[k]}

\* io.to(room).emit(event): the sockets in the room are sent the event.
emit(room, event) ==
    received' = [k \in Users |->
                   IF k \in InRoom(room) THEN received[k] \cup {event}
                   ELSE received[k]]

\* The id of an event payload that is no row of the messages table.
NoMessageId == 0

\* The payload of a new_message event.
NewMessage(c, senderId, id) ==
    [event |-> "new_message", chat |-> c, sender |-> senderId, id |-> id]

(* ------------------- POST /api/tasks  (tasks.js) ----------------------- *)
CreateTask(u, budget) ==
    /\ UNCHANGED realtime
    /\ Accept(u)
    /\ UNCHANGED chatStore
    /\ nextTaskId <= MaxTasks
    /\ IF budget < MinBudget
       THEN /\ Respond(u, Response("create", NullUser, 400, "Validation"))
            /\ UNCHANGED <<store, failures>>
       ELSE \E ok \in WriteOutcomes :
              /\ failures' = Failed(ok)
              /\ IF ok
                 THEN /\ tasks' = (nextTaskId :>
                                     [status |-> "OPEN", poster_id |-> u,
                                      hustler_id |-> NullUser, budget |-> budget])
                                  @@ tasks
                      /\ nextTaskId' = nextTaskId + 1
                      /\ Respond(u, Response("create", nextTaskId, 201, "None"))
                 ELSE /\ Respond(u, Response("create", NullUser, 500, "ServerError"))
                      /\ UNCHANGED <<tasks, nextTaskId>>
              /\ UNCHANGED <<users, chats, nextChatId, chat_members, notifications>>

(* ---------------- PUT /api/tasks/:id/assign  (tasks.js) ----------------- *)

\* findUnique and the three checks that follow it.  The acting user is the
\* hustler; no role is required of that user.
AssignRead(u, t) ==
    /\ UNCHANGED realtime
    /\ Accept(u)
    /\ UNCHANGED chatStore
    /\ UNCHANGED <<store, failures>>
    /\ IF t \notin DOMAIN tasks
       THEN Respond(u, Response("assign", t, 404, "NotFound"))
       ELSE IF tasks[t].status # "OPEN"
       THEN Respond(u, Response("assign", t, 400, "NotOpen"))
       ELSE IF tasks[t].poster_id = u
       THEN Respond(u, Response("assign", t, 400, "SelfAssignment"))
       ELSE /\ inflight' = [inflight EXCEPT ![u] =
                              [op |-> "assign", pc |-> "tx", task |-> t,
                               snap |-> tasks[t]]]
            /\ UNCHANGED lastResponse

\* prisma.$transaction([task.update, chat.create]): both writes or neither.
\* task.update needs the row to exist; chat.create is refused by the unique
\* index on chats.taskId when the task already has a chat.
AssignTransactionCommits(t) ==
    /\ t \in DOMAIN tasks
    /\ ChatOfTask(chats, t) = {}

AssignTx(u) ==
    /\ UNCHANGED realtime
    /\ inflight[u].op = "assign"
    /\ inflight[u].pc = "tx"
    /\ UNCHANGED chatStore
    /\ UNCHANGED <<users, nextTaskId, notifications, nreq>>
    /\ LET r == inflight[u]
           t == r.task
       IN \E ok \in WriteOutcomes :
            /\ failures' = Failed(ok)
            /\ IF ok /\ AssignTransactionCommits(t)
               THEN /\ tasks' = [tasks EXCEPT ![t].status = "ASSIGNED",
                                              ![t].hustler_id = u]
                    /\ chats' = chats \cup {[id |-> nextChatId, task_id |-> t]}
                    /\ chat_members' = chat_members \cup
                          {[chat_id |-> nextChatId, user_id |-> r.snap.poster_id],
                           [chat_id |-> nextChatId, user_id |-> u]}
                    /\ nextChatId' = nextChatId + 1
                    /\ inflight' = [inflight EXCEPT ![u].pc = "notify"]
                    /\ UNCHANGED lastResponse
               ELSE /\ Respond(u, Response("assign", t, 500, "ServerError"))
                    /\ UNCHANGED <<tasks, chats, chat_members, nextChatId>>

\* prisma.notification.create for the poster, then the 200 answer.  The
\* notification row refers to the task (notifications.task_id references
\* tasks), so the insert is refused once the task is gone.
AssignNotify(u) ==
    /\ UNCHANGED realtime
    /\ inflight[u].op = "assign"
    /\ inflight[u].pc = "notify"
    /\ UNCHANGED chatStore
    /\ UNCHANGED <<users, tasks, nextTaskId, chats, nextChatId, chat_members, nreq>>
    /\ LET r == inflight[u]
           t == r.task
       IN \E ok \in WriteOutcomes :
            /\ failures' = Failed(ok)
            /\ IF ok /\ t \in DOMAIN tasks
               THEN /\ notifications' = Append(notifications,
                          [user_id |-> r.snap.poster_id, type |-> "TASK_ASSIGNED",
                           task_id |-> t, chat_id |-> NullChat,
                           is_read |-> FALSE])
                    /\ Respond(u, Response("assign", t, 200, "None"))
               ELSE /\ Respond(u, Response("assign", t, 500, "ServerError"))
                    /\ UNCHANGED notifications

(* ---------------- PUT /api/tasks/:id/status  (tasks.js) ----------------- *)

\* The permission check with the comparison dropped: any authenticated
\* user passes.
canUpdateAnyUser(task, userId) ==
    task.poster_id = userId \/ task.hustler_id = userId \/ userId # NullUser

canUpdate(task, userId) ==
    task.poster_id = userId \/ task.hustler_id = userId

\* Validation of the body, findUnique, and the permission check.
StatusRead(u, t, status) ==
    /\ UNCHANGED realtime
    /\ Accept(u)
    /\ UNCHANGED chatStore
    /\ UNCHANGED <<store, failures>>
    /\ IF status \notin UpdatableStatus
       THEN Respond(u, Response("status", t, 400, "Validation"))
       ELSE IF t \notin DOMAIN tasks
       THEN Respond(u, Response("status", t, 404, "NotFound"))
       ELSE IF ~canUpdate(tasks[t], u)
       THEN Respond(u, Response("status", t, 403, "Unauthorized"))
       ELSE /\ inflight' = [inflight EXCEPT ![u] =
                              [op |-> "status", pc |-> "update", task |-> t,
                               status |-> status, snap |-> tasks[t]]]
            /\ UNCHANGED lastResponse

\* prisma.task.update({ data: { status } }); the credit follows only for
\* COMPLETED on a task that had a hustler when it was read.
StatusUpdate(u) ==
    /\ UNCHANGED realtime
    /\ inflight[u].op = "status"
    /\ inflight[u].pc = "update"
    /\ UNCHANGED chatStore
    /\ UNCHANGED <<users, nextTaskId, chats, nextChatId, chat_members,
                   notifications, nreq>>
    /\ LET r == inflight[u]
           t == r.task
       IN \E ok \in WriteOutcomes :
            /\ failures' = Failed(ok)
            /\ IF ok /\ t \in DOMAIN tasks
               THEN /\ tasks' = [tasks EXCEPT ![t].status = r.status]
                    /\ IF r.status = "COMPLETED" /\ r.snap.hustler_id # NullUser
                       THEN /\ inflight' = [inflight EXCEPT ![u].pc = "credit"]
                            /\ UNCHANGED lastResponse
                       ELSE Respond(u, Response("status", t, 200, "None"))
               ELSE /\ Respond(u, Response("status", t, 500, "ServerError"))
                    /\ UNCHANGED tasks

\* prisma.user.update with the two increments, then the 200 answer.
StatusCredit(u) ==
    /\ UNCHANGED realtime
    /\ inflight[u].op = "status"
    /\ inflight[u].pc = "credit"
    /\ UNCHANGED chatStore
    /\ UNCHANGED <<tasks, nextTaskId, chats, nextChatId, chat_members,
                   notifications, nreq>>
    /\ LET r == inflight[u]
           h == r.snap.hustler_id
       IN \E ok \in WriteOutcomes :
            /\ failures' = Failed(ok)
            /\ IF ok
               THEN /\ users' = [users EXCEPT
                          ![h].tasks_completed = @ + 1,
                          ![h].total_earnings = @ + r.snap.budget]
                    /\ Respond(u, Response("status", r.task, 200, "None"))
               ELSE /\ Respond(u, Response("status", r.task, 500, "ServerError"))
                    /\ UNCHANGED users

(* -------------------- PUT /api/tasks/:id  (tasks.ts) -------------------- *)

\* Request bodies: a function from the keys sent to their values.  Every
\* key of the body reaches the store (const updates = { ...req.body }).
UpdateBodies ==
    {("status" :> s) : s \in TaskStatus}
      \cup {("hustlerId" :> h) : h \in Users}
      \cup {("hustler_id" :> h) : h \in Users}
      \cup {("poster_id" :> p) : p \in Users}
      \cup {("budget" :> b) : b \in Budgets}
      \cup {("title" :> "t")}

\* The row after `update(updates)`: the columns named are overwritten.
ApplyUpdates(row, updates) ==
    [c \in ModelledColumns |->
        IF c \in DOMAIN updates THEN updates[c] ELSE row[c]]

UpdateTask(u, t, body) ==
    /\ UNCHANGED realtime
    /\ Accept(u)
    /\ UNCHANGED chatStore
    /\ UNCHANGED <<users, nextTaskId, chats, nextChatId, chat_members,
                   notifications>>
    /\ IF t \notin DOMAIN tasks
       THEN /\ Respond(u, Response("update", t, 500, "ServerError"))
            /\ UNCHANGED <<tasks, failures>>
       ELSE IF tasks[t].poster_id # u
       THEN /\ Respond(u, Response("update", t, 403, "Unauthorized"))
            /\ UNCHANGED <<tasks, failures>>
       ELSE IF "hustlerId" \in DOMAIN body
               /\ users[body["hustlerId"]].user_type \notin {"HUSTLER", "BOTH"}
       THEN /\ Respond(u, Response("update", t, 400, "NotHustler"))
            /\ UNCHANGED <<tasks, failures>>
       ELSE LET updates == IF "hustlerId" \in DOMAIN body
                           THEN ("status" :> "ASSIGNED") @@ body
                           ELSE body
            IN \E ok \in WriteOutcomes :
                 /\ failures' = Failed(ok)
                 /\ IF ok /\ DOMAIN updates \subseteq TaskColumns
                    THEN /\ tasks' = [tasks EXCEPT ![t] = ApplyUpdates(@, updates)]
                         /\ Respond(u, Response("update", t, 200, "None"))
                    ELSE /\ Respond(u, Response("update", t, 500, "ServerError"))
                         /\ UNCHANGED tasks

(* ------------------- DELETE /api/tasks/:id  (tasks.ts) ------------------ *)

\* on delete cascade: the task's chat, its members and its messages go
\* with the task; on delete set null: notifications keep their row and lose
\* the references.
DeleteCascade(t) ==
    LET gone == {c.id : c \in ChatOfTask(chats, t)}
    IN /\ tasks' = [x \in DOMAIN tasks \ {t} |-> tasks[x]]
       /\ chats' = chats \ ChatOfTask(chats, t)
       /\ chat_members' = {m \in chat_members : m.chat_id \notin gone}
       /\ messages' = SelectSeq(messages, LAMBDA m : m.chat_id \notin gone)
       /\ chat_updated_at' = [c \in DOMAIN chat_updated_at \ gone |->
                                chat_updated_at[c]]
       /\ notifications' = [i \in DOMAIN notifications |->
             [notifications[i] EXCEPT
                !.task_id = IF @ = t THEN NullUser ELSE @,
                !.chat_id = IF @ \in gone THEN NullChat ELSE @]]

DeleteTask(u, t) ==
    /\ UNCHANGED realtime
    /\ Accept(u)
    /\ UNCHANGED <<users, nextTaskId, nextChatId, nextMessageId, scan>>
    /\ IF t \notin DOMAIN tasks
       THEN /\ Respond(u, Response("delete", t, 500, "ServerError"))
            /\ UNCHANGED <<tasks, chats, chat_members, notifications, messages,
                       chat_updated_at, failures>>
       ELSE IF tasks[t].poster_id # u
       THEN /\ Respond(u, Response("delete", t, 403, "Unauthorized"))
            /\ UNCHANGED <<tasks, chats, chat_members, notifications, messages,
                       chat_updated_at, failures>>
       ELSE \E ok \in WriteOutcomes :
              /\ failures' = Failed(ok)
              /\ IF ok
                 THEN /\ DeleteCascade(t)
                      /\ Respond(u, Response("delete", t, 200, "None"))
                 ELSE /\ Respond(u, Response("delete", t, 500, "ServerError"))
                      /\ UNCHANGED <<tasks, chats, chat_members, notifications,
                                     messages, chat_updated_at>>

(* --------------------------- specifications ---------------------------- *)

\* The routes of src/src/routes/tasks.js alone (the Prisma server).
NextLifecycle ==
    \/ \E u \in Users, b \in Budgets : CreateTask(u, b)
    \/ \E u \in Users, t \in TaskIds : AssignRead(u, t)
    \/ \E u \in Users : AssignTx(u)
    \/ \E u \in Users : AssignNotify(u)
    \/ \E u \in Users, t \in TaskIds, s \in TaskStatus : StatusRead(u, t, s)
    \/ \E u \in Users : StatusUpdate(u)
    \/ \E u \in Users : StatusCredit(u)

\* All task routes over one store.
Next ==
    \/ NextLifecycle
    \/ \E u \in Users, t \in TaskIds, body \in UpdateBodies : UpdateTask(u, t, body)
    \/ \E u \in Users, t \in TaskIds : DeleteTask(u, t)

SpecLifecycle == Init /\ [][NextLifecycle]_vars

Spec == Init /\ [][Next]_vars

(* ------------------------------- strings ------------------------------ *)

\* A string is kept as its runs: <<Run("a", 3), Run(" ", 1)>> is "aaa ".
Run(ch, n) == [ch |-> ch, n |-> n]

RECURSIVE StrLen(_)
StrLen(s) == IF s = << >> THEN 0 ELSE Head(s).n + StrLen(Tail(s))

RECURSIVE TrimStart(_)
TrimStart(s) ==
    IF s # << >> /\ Head(s).ch = " " THEN TrimStart(Tail(s)) ELSE s

RECURSIVE TrimEnd(_)
TrimEnd(s) ==
    IF s # << >> /\ s[Len(s)].ch = " "
    THEN TrimEnd(SubSeq(s, 1, Len(s) - 1))
    ELSE s

\* express-validator's trim() sanitizer: the body field is replaced by the
\* string without its leading and trailing whitespace.
trim(s) == TrimEnd(TrimStart(s))

\* Message bodies a client sends: "", "   ", " hh ", and a string of
\* MaxContentLength + 1 characters.
Contents ==
    {<< >>,
     <<Run(" ", 3)>>,
     <<Run(" ", 1), Run("h", 2), Run(" ", 1)>>,
     <<Run("a", MaxContentLength + 1)>>}

(* ------------------------- the store after assign ----------------------- *)

\* Chat 1 exists from the start; no chat 2 is ever created here.
ChatIds == {1, 2}

\* The store once user 2 has been assigned the task of user 1 and has sent
\* a first message: the state the chat routes start from.  User 3 is a
\* member of no chat.
InitChat ==
    /\ users = [u \in Users |->
                  [user_type |-> InitialUserType(u), tasks_completed |-> 0,
                   total_earnings |-> 0, tasks_posted |-> 0]]
    /\ tasks = (1 :> [status |-> "ASSIGNED", poster_id |-> 1,
                      hustler_id |-> 2, budget |-> MinBudget])
    /\ nextTaskId = 2
    /\ chats = {[id |-> 1, task_id |-> 1]}
    /\ nextChatId = 2
    /\ chat_members = {[chat_id |-> 1, user_id |-> 1],
                       [chat_id |-> 1, user_id |-> 2]}
    /\ notifications = <<[user_id |-> 1, type |-> "TASK_ASSIGNED", task_id |-> 1,
                          chat_id |-> NullChat, is_read |-> FALSE],
                         [user_id |-> 1, type |-> "NEW_MESSAGE",
                          task_id |-> NullUser, chat_id |-> 1,
                          is_read |-> FALSE]>>
    /\ messages = <<[id |-> 1, chat_id |-> 1, sender_id |-> 2,
                     content |-> <<Run("h", 2)>>]>>
    /\ nextMessageId = 2
    /\ chat_updated_at = (1 :> 1)
    /\ scan = NoScan
    /\ inflight = [u \in Users |-> Idle]
    /\ lastResponse = NoResponse
    /\ nreq = 0
    /\ failures = 0
    /\ rooms = [u \in Users |-> Offline]
    /\ received = [u \in Users |-> {}]

\* A new request of user u enters a handler of the chat or users router.
AcceptChat(u) ==
    /\ inflight[u] = Idle
    /\ nreq < MaxChatRequests
    /\ nreq' = nreq + 1

ChatExists(c) == \E x \in chats : x.id = c

\* prisma.chatMember.findFirst({ where: { chatId, userId } })
IsMember(c, u) == [chat_id |-> c, user_id |-> u] \in chat_members

UpdatedAt(c) == IF c \in DOMAIN chat_updated_at THEN chat_updated_at[c] ELSE 0

ChatResponse(op, c, code, error, data) ==
    [op |-> op, chat |-> c, code |-> code, error |-> error, data |-> data]

RespondChat(u, r) ==
    /\ lastResponse' = [actor |-> u, op |-> r.op, chat |-> r.chat,
                        code |-> r.code, error |-> r.error, data |-> r.data]
    /\ inflight' = [inflight EXCEPT ![u] = Idle]

NoData == << >>

(* ------------- POST /api/chat/:chatId/messages  (chat.js) -------------- *)

\* The validation chain, then the membership read.  The body handed to the
\* handler is the trimmed one.
PostRead(u, c, content) ==
    /\ UNCHANGED realtime
    /\ AcceptChat(u)
    /\ UNCHANGED <<store, scan, failures>>
    /\ IF StrLen(trim(content)) < 1 \/ StrLen(trim(content)) > MaxContentLength
       THEN RespondChat(u, ChatResponse("post", c, 400, "Validation", NoData))
       ELSE IF ~IsMember(c, u)
       THEN RespondChat(u, ChatResponse("post", c, 403, "Forbidden", NoData))
       ELSE /\ inflight' = [inflight EXCEPT ![u] =
                              [op |-> "post", pc |-> "create", chat |-> c,
                               content |-> trim(content)]]
            /\ UNCHANGED lastResponse

\* prisma.message.create
PostCreate(u) ==
    /\ UNCHANGED realtime
    /\ inflight[u].op = "post"
    /\ inflight[u].pc = "create"
    /\ UNCHANGED <<users, tasks, nextTaskId, chats, nextChatId, chat_members,
                   notifications, chat_updated_at, scan, nreq>>
    /\ LET r == inflight[u]
       IN \E ok \in WriteOutcomes :
            /\ failures' = Failed(ok)
            /\ IF ok /\ ChatExists(r.chat)
               THEN /\ messages' = Append(messages,
                          [id |-> nextMessageId, chat_id |-> r.chat,
                           sender_id |-> u, content |-> r.content])
                    /\ nextMessageId' = nextMessageId + 1
                    /\ inflight' = [inflight EXCEPT ![u] =
                                      [r EXCEPT !.pc = "touch"] @@
                                      [message |-> nextMessageId]]
                    /\ UNCHANGED lastResponse
               ELSE /\ RespondChat(u, ChatResponse("post", r.chat, 500,
                                                   "ServerError", NoData))
                    /\ UNCHANGED <<messages, nextMessageId>>

\* prisma.chat.update({ data: { updatedAt: new Date() } })
PostTouch(u) ==
    /\ UNCHANGED realtime
    /\ inflight[u].op = "post"
    /\ inflight[u].pc = "touch"
    /\ UNCHANGED <<users, tasks, nextTaskId, chats, nextChatId, chat_members,
                   notifications, messages, nextMessageId, scan, nreq>>
    /\ LET r == inflight[u]
       IN \E ok \in WriteOutcomes :
            /\ failures' = Failed(ok)
            /\ IF ok /\ ChatExists(r.chat)
               THEN /\ chat_updated_at' =
                          (r.chat :> (UpdatedAt(r.chat) + 1)) @@ chat_updated_at
                    /\ inflight' = [inflight EXCEPT ![u].pc = "members"]
                    /\ UNCHANGED lastResponse
               ELSE /\ RespondChat(u, ChatResponse("post", r.chat, 500,
                                                   "ServerError", NoData))
                    /\ UNCHANGED chat_updated_at

\* prisma.chatMember.findMany for the members other than the sender.  With
\* no other member the handler answers 201 without a further store call.
PostMembers(u) ==
    /\ UNCHANGED realtime
    /\ inflight[u].op = "post"
    /\ inflight[u].pc = "members"
    /\ UNCHANGED <<store, scan, nreq, failures>>
    /\ LET r == inflight[u]
           otherMembers == {m.user_id : m \in {x \in chat_members :
                               x.chat_id = r.chat /\ x.user_id # u}}
       IN IF otherMembers = {}
          THEN RespondChat(u, ChatResponse("post", r.chat, 201, "None", r.message))
          ELSE /\ inflight' = [inflight EXCEPT ![u] =
                                 [r EXCEPT !.pc = "notify"] @@
                                 [otherMembers |-> otherMembers]]
               /\ UNCHANGED lastResponse

\* The rows of one createMany, in the order of the user ids.
RECURSIVE NewMessageNotifications(_, _)
NewMessageNotifications(members, c) ==
    IF members = {} THEN << >>
    ELSE LET m == CHOOSE x \in members : \A y \in members : x <= y
         IN <<[user_id |-> m, type |-> "NEW_MESSAGE", task_id |-> NullUser,
               chat_id |-> c, is_read |-> FALSE]>>
            \o NewMessageNotifications(members \ {m}, c)

\* prisma.notification.createMany, then the 201 answer.
PostNotify(u) ==
    /\ UNCHANGED realtime
    /\ inflight[u].op = "post"
    /\ inflight[u].pc = "notify"
    /\ UNCHANGED <<users, tasks, nextTaskId, chats, nextChatId, chat_members,
                   messages, nextMessageId, chat_updated_at, scan, nreq>>
    /\ LET r == inflight[u]
       IN \E ok \in WriteOutcomes :
            /\ failures' = Failed(ok)
            /\ IF ok /\ ChatExists(r.chat)
               THEN /\ notifications' = notifications \o
                          NewMessageNotifications(r.otherMembers, r.chat)
                    /\ RespondChat(u, ChatResponse("post", r.chat, 201, "None",
                                                   r.message))
               ELSE /\ RespondChat(u, ChatResponse("post", r.chat, 500,
                                                   "ServerError", NoData))
                    /\ UNCHANGED notifications

(* -------------- GET /api/chat/:chatId/messages  (chat.js) -------------- *)

Pages == 0..MaxPage
Limits == 1..MaxLimit

Reverse(s) == [i \in 1..Len(s) |-> s[Len(s) + 1 - i]]

\* The ids of the chat's messages, oldest first.  createdAt is taken to
\* order the messages of a chat strictly, in the order of their creation.
MessageIdsOf(ms, c) ==
    LET rows == SelectSeq(ms, LAMBDA m : m.chat_id = c)
    IN [i \in 1..Len(rows) |-> rows[i].id]

\* The same query ordered oldest first.
findManyAscending(ms, c, skip, take) ==
    LET asc == MessageIdsOf(ms, c)
        last == IF skip + take < Len(asc) THEN skip + take ELSE Len(asc)
    IN SubSeq(asc, skip + 1, last)

\* findMany({ where: { chatId }, skip, take, orderBy: { createdAt: 'desc' } })
findMany(ms, c, skip, take) ==
    LET desc == Reverse(MessageIdsOf(ms, c))
        last == IF skip + take < Len(desc) THEN skip + take ELSE Len(desc)
    IN SubSeq(desc, skip + 1, last)

\* What the paging client has gathered once this page has come back.
ScanAfter(u, c, page, limit, rows) ==
    IF page = 1
    THEN [actor |-> u, chat |-> c, limit |-> limit, next |-> 2,
          got |-> rows, done |-> Len(rows) < limit]
    ELSE IF /\ scan.actor = u
            /\ scan.chat = c
            /\ scan.limit = limit
            /\ scan.next = page
            /\ ~scan.done
    THEN [scan EXCEPT !.next = page + 1, !.got = @ \o rows,
                      !.done = Len(rows) < limit]
    ELSE scan

\* The membership read, then findMany and count, then the reversal.  A
\* negative skip is refused by the client library and ends in the catch.
ListMessages(u, c, page, limit) ==
    /\ UNCHANGED realtime
    /\ AcceptChat(u)
    /\ UNCHANGED <<store, failures>>
    /\ IF ~IsMember(c, u)
       THEN /\ RespondChat(u, ChatResponse("list", c, 403, "Forbidden", NoData))
            /\ UNCHANGED scan
       ELSE IF page < 1
       THEN /\ RespondChat(u, ChatResponse("list", c, 500, "ServerError", NoData))
            /\ UNCHANGED scan
       ELSE LET skip == (page - 1) * limit
                reversedMessages == Reverse(findMany(messages, c, skip, limit))
            IN /\ RespondChat(u, ChatResponse("list", c, 200, "None",
                     [messages |-> reversedMessages, page |-> page,
                      limit |-> limit,
                      total |-> Len(MessageIdsOf(messages, c))]))
               /\ scan' = ScanAfter(u, c, page, limit, reversedMessages)

(* ------------------- the users router  (users.js) ---------------------- *)

\* The routes in the order the router registers them.  A request is handled
\* by the first route whose method and path pattern match it; none of the
\* handlers passes the request on.
UsersRoutes ==
    <<[method |-> "GET", path |-> <<"profile">>, handler |-> "getProfile"],
      [method |-> "PUT", path |-> <<"profile">>, handler |-> "updateProfile"],
      [method |-> "GET", path |-> <<":id">>, handler |-> "getUser"],
      [method |-> "GET", path |-> <<"notifications">>,
       handler |-> "listNotifications"],
      [method |-> "PUT", path |-> <<"notifications", ":id", "read">>,
       handler |-> "markRead"],
      [method |-> "PUT", path |-> <<"notifications", "read-all">>,
       handler |-> "markAllRead"],
      [method |-> "GET", path |-> <<"stats">>, handler |-> "getStats"]>>

\* A pattern segment that starts with a colon matches any segment.
IsParam(seg) == seg = ":id"

RouteMatches(route, method, path) ==
    /\ route.method = method
    /\ Len(route.path) = Len(path)
    /\ \A i \in 1..Len(path) : IsParam(route.path[i]) \/ route.path[i] = path[i]

Handler(method, path) ==
    LET hits == {i \in DOMAIN UsersRoutes :
                    RouteMatches(UsersRoutes[i], method, path)}
    IN IF hits = {} THEN "none"
       ELSE UsersRoutes[CHOOSE i \in hits : \A j \in hits : i <= j].handler

\* Ids travel in the path as text.
NotificationIds == 1..(MaxChatRequests + 1)

UserOfSegment(seg) == {u \in Users : ToString(u) = seg}
NotificationOfSegment(seg) == {n \in NotificationIds : ToString(n) = seg}

UsersResponse(method, path, handler, code, error, data) ==
    [op |-> handler, method |-> method, path |-> path, code |-> code,
     error |-> error, data |-> data]

RespondUsers(u, r) ==
    /\ lastResponse' = [actor |-> u, op |-> r.op, method |-> r.method,
                        path |-> r.path, code |-> r.code, error |-> r.error,
                        data |-> r.data]
    /\ inflight' = [inflight EXCEPT ![u] = Idle]

\* prisma.notification.count({ where: { userId, isRead: false } })
unreadCount(ns, userId) ==
    Cardinality({i \in DOMAIN ns : ns[i].user_id = userId /\ ~ns[i].is_read})

\* The ids of the notifications that satisfy `where`, newest first.
NotificationsWhere(ns, userId, unreadOnly) ==
    LET hit(i) == ns[i].user_id = userId /\ (unreadOnly => ~ns[i].is_read)
        ids == [i \in 1..Len(ns) |-> i]
    IN Reverse(SelectSeq(ids, hit))

\* GET /notifications: findMany, count and the unread count.
listNotifications(u, page, limit, unreadOnly) ==
    LET where == NotificationsWhere(notifications, u, unreadOnly)
        skip == (page - 1) * limit
        last == IF skip + limit < Len(where) THEN skip + limit ELSE Len(where)
    IN [notifications |-> SubSeq(where, skip + 1, last),
        unreadCount |-> unreadCount(notifications, u),
        total |-> Len(where)]

GetPaths == {<<"notifications">>} \cup {<<ToString(x)>> : x \in Users}

\* A GET on the users router.
UsersGet(u, path) ==
    /\ UNCHANGED realtime
    /\ AcceptChat(u)
    /\ UNCHANGED <<store, scan, failures>>
    /\ LET h == Handler("GET", path)
       IN IF h = "getUser"
          THEN IF UserOfSegment(path[1]) = {}
               THEN RespondUsers(u, UsersResponse("GET", path, h, 404,
                                                  "UserNotFound", NoData))
               ELSE RespondUsers(u, UsersResponse("GET", path, h, 200, "None",
                        [user |-> CHOOSE x \in UserOfSegment(path[1]) : TRUE]))
          ELSE IF h = "listNotifications"
          THEN \E page \in Pages, limit \in Limits, unreadOnly \in BOOLEAN :
                 IF page < 1
                 THEN RespondUsers(u, UsersResponse("GET", path, h, 500,
                                                    "ServerError", NoData))
                 ELSE RespondUsers(u, UsersResponse("GET", path, h, 200, "None",
                          listNotifications(u, page, limit, unreadOnly)))
          ELSE RespondUsers(u, UsersResponse("GET", path, h, 404,
                                             "NoRoute", NoData))

PutPaths ==
    {<<"notifications", "read-all">>}
      \cup {<<"notifications", ToString(n), "read">> : n \in NotificationIds}

\* The ownership read with the owner left out of the filter.
findFirstAnyOwner(ns, id, userId) ==
    {i \in DOMAIN ns : i = id}

\* prisma.notification.findFirst({ where: { id, userId } })
findFirst(ns, id, userId) ==
    {i \in DOMAIN ns : i = id /\ ns[i].user_id = userId}

\* prisma.notification.updateMany({ where: { userId, isRead: false },
\*                                  data: { isRead: true } })
updateMany(ns, userId) ==
    [i \in DOMAIN ns |->
        IF ns[i].user_id = userId /\ ~ns[i].is_read
        THEN [ns[i] EXCEPT !.is_read = TRUE]
        ELSE ns[i]]

\* A PUT on the users router: /notifications/:id/read up to its ownership
\* read, or /notifications/read-all in full.
UsersPut(u, path) ==
    /\ UNCHANGED realtime
    /\ AcceptChat(u)
    /\ UNCHANGED <<users, tasks, nextTaskId, chats, nextChatId, chat_members,
                   messages, nextMessageId, chat_updated_at, scan>>
    /\ LET h == Handler("PUT", path)
       IN IF h = "markRead"
          THEN /\ UNCHANGED <<notifications, failures>>
               /\ LET ids == NotificationOfSegment(path[2])
                      id == IF ids = {} THEN 0 ELSE CHOOSE n \in ids : TRUE
                  IN IF findFirst(notifications, id, u) = {}
                     THEN RespondUsers(u, UsersResponse("PUT", path, h, 404,
                                          "NotificationNotFound", NoData))
                     ELSE /\ inflight' = [inflight EXCEPT ![u] =
                                 [op |-> "markRead", pc |-> "update",
                                  path |-> path, id |-> id]]
                          /\ UNCHANGED lastResponse
          ELSE IF h = "markAllRead"
          THEN \E ok \in WriteOutcomes :
                 /\ failures' = Failed(ok)
                 /\ IF ok
                    THEN /\ notifications' = updateMany(notifications, u)
                         /\ RespondUsers(u, UsersResponse("PUT", path, h, 200,
                                                          "None", NoData))
                    ELSE /\ RespondUsers(u, UsersResponse("PUT", path, h, 500,
                                                   "ServerError", NoData))
                         /\ UNCHANGED notifications
          ELSE /\ RespondUsers(u, UsersResponse("PUT", path, h, 404,
                                                "NoRoute", NoData))
               /\ UNCHANGED <<notifications, failures>>

\* prisma.notification.update({ where: { id }, data: { isRead: true } })
MarkReadUpdate(u) ==
    /\ UNCHANGED realtime
    /\ inflight[u].op = "markRead"
    /\ inflight[u].pc = "update"
    /\ UNCHANGED <<users, tasks, nextTaskId, chats, nextChatId, chat_members,
                   messages, nextMessageId, chat_updated_at, scan, nreq>>
    /\ LET r == inflight[u]
       IN \E ok \in WriteOutcomes :
            /\ failures' = Failed(ok)
            /\ IF ok /\ r.id \in DOMAIN notifications
               THEN /\ notifications' =
                          [notifications EXCEPT ![r.id].is_read = TRUE]
                    /\ RespondUsers(u, UsersResponse("PUT", r.path, "markRead",
                                                     200, "None", NoData))
               ELSE /\ RespondUsers(u, UsersResponse("PUT", r.path, "markRead",
                                          500, "ServerError", NoData))
                    /\ UNCHANGED notifications

(* ----------- POST /api/chats/:chatId/messages  (chat.ts) --------------- *)

\* isString().trim().notEmpty(), then the membership read.
SbPostRead(u, c, content) ==
    /\ UNCHANGED realtime
    /\ AcceptChat(u)
    /\ UNCHANGED <<store, scan, failures>>
    /\ IF StrLen(trim(content)) = 0
       THEN RespondChat(u, ChatResponse("post", c, 400, "Validation", NoData))
       ELSE IF ~IsMember(c, u)
       THEN RespondChat(u, ChatResponse("post", c, 403, "Forbidden", NoData))
       ELSE /\ inflight' = [inflight EXCEPT ![u] =
                              [op |-> "post", pc |-> "insert", chat |-> c,
                               content |-> trim(content)]]
            /\ UNCHANGED lastResponse

\* supabase.from('messages').insert(...); an error is thrown to the catch.
SbPostInsert(u) ==
    /\ UNCHANGED realtime
    /\ inflight[u].op = "post"
    /\ inflight[u].pc = "insert"
    /\ UNCHANGED <<users, tasks, nextTaskId, chats, nextChatId, chat_members,
                   notifications, chat_updated_at, scan, nreq>>
    /\ LET r == inflight[u]
       IN \E ok \in WriteOutcomes :
            /\ failures' = Failed(ok)
            /\ IF ok /\ ChatExists(r.chat)
               THEN /\ messages' = Append(messages,
                          [id |-> nextMessageId, chat_id |-> r.chat,
                           sender_id |-> u, content |-> r.content])
                    /\ nextMessageId' = nextMessageId + 1
                    /\ inflight' = [inflight EXCEPT ![u] =
                                      [r EXCEPT !.pc = "touch"] @@
                                      [message |-> nextMessageId]]
                    /\ UNCHANGED lastResponse
               ELSE /\ RespondChat(u, ChatResponse("post", r.chat, 500,
                                                   "ServerError", NoData))
                    /\ UNCHANGED <<messages, nextMessageId>>

\* req.app.get('io').to(room).emit(...) either returns or throws; it throws
\* on every call when no 'io' has been registered on the app.
PushOutcomes == {"emitted", "throws"}

\* The update of chats.updated_at, whose error is not looked at, then the
\* push and the answer: 201 after the push, 500 from the catch if it threw.
SbPostTouch(u) ==
    /\ inflight[u].op = "post"
    /\ inflight[u].pc = "touch"
    /\ UNCHANGED <<users, tasks, nextTaskId, chats, nextChatId, chat_members,
                   notifications, messages, nextMessageId, scan, nreq, rooms>>
    /\ LET r == inflight[u]
       IN /\ \E ok \in WriteOutcomes :
               /\ failures' = Failed(ok)
               /\ IF ok /\ ChatExists(r.chat)
                  THEN chat_updated_at' =
                          (r.chat :> (UpdatedAt(r.chat) + 1)) @@ chat_updated_at
                  ELSE UNCHANGED chat_updated_at
          /\ \E push \in PushOutcomes :
               IF push = "emitted"
               THEN /\ emit(RoomOfChat(r.chat), NewMessage(r.chat, u, r.message))
                    /\ RespondChat(u, ChatResponse("post", r.chat, 201, "None",
                                                   r.message))
               ELSE /\ RespondChat(u, ChatResponse("post", r.chat, 500,
                                                   "PushFailed", NoData))
                    /\ UNCHANGED received

(* ------------ GET /api/chats/:chatId/messages  (chat.ts) ---------------- *)

Offsets == 0..MaxPage
SbLimits == 0..MaxLimit

\* .order('created_at', { ascending: false }).range(offset, offset + limit - 1)
range(ms, c, offset, limit) == findMany(ms, c, offset, limit)

SbListMessages(u, c, offset, limit) ==
    /\ UNCHANGED realtime
    /\ AcceptChat(u)
    /\ UNCHANGED <<store, scan, failures>>
    /\ IF limit < 1
       THEN RespondChat(u, ChatResponse("list", c, 400, "Validation", NoData))
       ELSE IF ~IsMember(c, u)
       THEN RespondChat(u, ChatResponse("list", c, 403, "Forbidden", NoData))
       ELSE RespondChat(u, ChatResponse("list", c, 200, "None",
               [messages |-> Reverse(range(messages, c, offset, limit)),
                offset |-> offset, limit |-> limit]))

(* --------- POST /api/chats/:chatId/messages/read  (chat.ts) ------------- *)

\* The columns of public.messages; an update naming any other column is
\* refused by the store.
MessageColumns ==
    {"id", "content", "type", "chat_id", "sender_id", "image_url", "created_at"}

\* update(updates).eq('chat_id', chatId).neq('sender_id', userId)
MarkMessages(ms, c, userId, updates) ==
    [i \in DOMAIN ms |->
        IF ms[i].chat_id = c /\ ms[i].sender_id # userId
        THEN updates @@ ms[i]
        ELSE ms[i]]

\* The handler goes to the store without a membership read.
SbMarkRead(u, c) ==
    /\ UNCHANGED realtime
    /\ AcceptChat(u)
    /\ UNCHANGED <<users, tasks, nextTaskId, chats, nextChatId, chat_members,
                   notifications, nextMessageId, chat_updated_at, scan>>
    /\ LET updates == [is_read |-> TRUE]
       IN \E ok \in WriteOutcomes :
            /\ failures' = Failed(ok)
            /\ IF ok /\ DOMAIN updates \subseteq MessageColumns
               THEN /\ messages' = MarkMessages(messages, c, u, updates)
                    /\ RespondChat(u, ChatResponse("markChatRead", c, 200, "None",
                                                   NoData))
               ELSE /\ RespondChat(u, ChatResponse("markChatRead", c, 500,
                                                   "ServerError", NoData))
                    /\ UNCHANGED messages

(* ---------------- socket send_message  (auth.routes.js) ----------------- *)

\* What the socket handler sends: the new_message broadcast to the room,
\* or nothing when the insert failed (the error is logged).
SocketEvent(event, c, data) ==
    [actor |-> NullUser, op |-> event, chat |-> c, code |-> 0,
     error |-> "None", data |-> data]

\* Any connected client sends { chatId, message, senderId }; the handler
\* inserts the row as given.  The store refuses a row whose chat does not
\* exist.
SocketSendMessage(senderId, c, content) ==
    /\ nreq < MaxChatRequests
    /\ nreq' = nreq + 1
    /\ UNCHANGED <<users, tasks, nextTaskId, chats, nextChatId, chat_members,
                   notifications, chat_updated_at, scan, inflight, rooms>>
    /\ \E ok \in WriteOutcomes :
         /\ failures' = Failed(ok)
         /\ IF ok /\ ChatExists(c)
            THEN /\ messages' = Append(messages,
                       [id |-> nextMessageId, chat_id |-> c,
                        sender_id |-> senderId, content |-> content])
                 /\ nextMessageId' = nextMessageId + 1
                 /\ emit(RoomOfChat(c), NewMessage(c, senderId, nextMessageId))
                 /\ lastResponse' = SocketEvent("new_message", c, nextMessageId)
            ELSE /\ lastResponse' = SocketEvent("no_event", c, NoData)
                 /\ UNCHANGED <<messages, nextMessageId, received>>

\* The Prisma server's chat router, from the store after assign.
NextChat ==
    \/ \E u \in Users, c \in ChatIds, content \in Contents : PostRead(u, c, content)
    \/ \E u \in Users : PostCreate(u)
    \/ \E u \in Users : PostTouch(u)
    \/ \E u \in Users : PostMembers(u)
    \/ \E u \in Users : PostNotify(u)
    \/ \E u \in Users, c \in ChatIds, page \in Pages, limit \in Limits :
          ListMessages(u, c, page, limit)

\* The Prisma server's users router next to its chat router.
NextNotifications ==
    \/ \E u \in Users, c \in ChatIds, content \in Contents : PostRead(u, c, content)
    \/ \E u \in Users : PostCreate(u)
    \/ \E u \in Users : PostTouch(u)
    \/ \E u \in Users : PostMembers(u)
    \/ \E u \in Users : PostNotify(u)
    \/ \E u \in Users, path \in GetPaths : UsersGet(u, path)
    \/ \E u \in Users, path \in PutPaths : UsersPut(u, path)
    \/ \E u \in Users : MarkReadUpdate(u)

\* The chat router of chat.ts and the socket handlers served with it.
NextSupabaseChat ==
    \/ \E u \in Users, c \in ChatIds, content \in Contents : SbPostRead(u, c, content)
    \/ \E u \in Users : SbPostInsert(u)
    \/ \E u \in Users : SbPostTouch(u)
    \/ \E u \in Users, c \in ChatIds, offset \in Offsets, limit \in SbLimits :
          SbListMessages(u, c, offset, limit)
    \/ \E u \in Users, c \in ChatIds : SbMarkRead(u, c)
    \/ \E senderId \in Users, c \in ChatIds, content \in Contents :
          SocketSendMessage(senderId, c, content)

SpecChat == InitChat /\ [][NextChat]_vars

SpecSupabaseChat == InitChat /\ [][NextSupabaseChat]_vars

SpecNotifications == InitChat /\ [][NextNotifications]_vars

(* --------------------- POST /api/tasks  (tasks.ts) ---------------------- *)

\* body('budget').isInt({ min: 0 })
MinBudgetSupabase == 0

\* The insert names poster_id and status; nothing else is written.
SbCreateTask(u, budget) ==
    /\ UNCHANGED realtime
    /\ Accept(u)
    /\ UNCHANGED chatStore
    /\ nextTaskId <= MaxTasks
    /\ UNCHANGED <<users, chats, nextChatId, chat_members, notifications>>
    /\ IF budget < MinBudgetSupabase
       THEN /\ Respond(u, Response("create", NullUser, 400, "Validation"))
            /\ UNCHANGED <<tasks, nextTaskId, failures>>
       ELSE \E ok \in WriteOutcomes :
              /\ failures' = Failed(ok)
              /\ IF ok
                 THEN /\ tasks' = (nextTaskId :>
                                     [status |-> "OPEN", poster_id |-> u,
                                      hustler_id |-> NullUser, budget |-> budget])
                                  @@ tasks
                      /\ nextTaskId' = nextTaskId + 1
                      /\ Respond(u, Response("create", nextTaskId, 201, "None"))
                 ELSE /\ Respond(u, Response("create", NullUser, 500, "ServerError"))
                      /\ UNCHANGED <<tasks, nextTaskId>>

(* ------------- chatService.getOrCreateChat  (smsService.js) ------------- *)

\* The columns of public.chats; an insert naming any other column is
\* refused by the store.
ChatColumns == {"id", "task_id", "created_at", "updated_at"}

\* What a call of the service ends with: the chat it returns, or the error
\* it throws (code 500).
ServiceOutcome(u, t, code, error, chat) ==
    [actor |-> u, op |-> "getOrCreateChat", task |-> t, code |-> code,
     error |-> error, chat |-> chat]

\* The select of the task's chat.  A chat found is returned as it is; no
\* row is not an error (PGRST116) and the call goes on to the insert.
getOrCreateChatSelect(userId, taskId) ==
    /\ UNCHANGED realtime
    /\ Accept(userId)
    /\ UNCHANGED <<store, scan, failures>>
    /\ IF ChatOfTask(chats, taskId) # {}
       THEN /\ lastResponse' = ServiceOutcome(userId, taskId, 200, "None",
                  (CHOOSE c \in ChatOfTask(chats, taskId) : TRUE).id)
            /\ UNCHANGED inflight
       ELSE /\ inflight' = [inflight EXCEPT ![userId] =
                              [op |-> "getOrCreateChat", pc |-> "insert",
                               task |-> taskId]]
            /\ UNCHANGED lastResponse

\* insert({ task_id, created_by }): refused for the unknown column, for a
\* task that does not exist and, by the unique index on chats.task_id, for
\* a task that has a chat by now.  No chat_members row is written.
getOrCreateChatInsert(userId) ==
    /\ UNCHANGED realtime
    /\ inflight[userId].op = "getOrCreateChat"
    /\ inflight[userId].pc = "insert"
    /\ UNCHANGED <<users, tasks, nextTaskId, chat_members, notifications,
                   messages, nextMessageId, chat_updated_at, scan, nreq>>
    /\ LET taskId == inflight[userId].task
           row == [task_id |-> taskId, created_by |-> userId]
       IN \E ok \in WriteOutcomes :
            /\ failures' = Failed(ok)
            /\ inflight' = [inflight EXCEPT ![userId] = Idle]
            /\ IF /\ ok
                  /\ DOMAIN row \subseteq ChatColumns
                  /\ taskId \in DOMAIN tasks
                  /\ ChatOfTask(chats, taskId) = {}
               THEN /\ chats' = chats \cup {[id |-> nextChatId, task_id |-> taskId]}
                    /\ nextChatId' = nextChatId + 1
                    /\ lastResponse' = ServiceOutcome(userId, taskId, 200, "None",
                                                      nextChatId)
               ELSE /\ lastResponse' = ServiceOutcome(userId, taskId, 500,
                                                      "Thrown", NullChat)
                    /\ UNCHANGED <<chats, nextChatId>>

\* The task routes of tasks.ts and the chat service, over a store that is
\* empty or holds an assigned task with its chat.
NextSupabaseTasks ==
    \/ \E u \in Users, b \in Budgets : SbCreateTask(u, b)
    \/ \E u \in Users, t \in TaskIds, body \in UpdateBodies : UpdateTask(u, t, body)
    \/ \E u \in Users, t \in TaskIds : DeleteTask(u, t)
    \/ \E u \in Users, t \in TaskIds : getOrCreateChatSelect(u, t)
    \/ \E u \in Users : getOrCreateChatInsert(u)

SpecSupabaseTasks == (Init \/ InitChat) /\ [][NextSupabaseTasks]_vars

(* ------------------ the socket handlers  (part_004) -------------------- *)

\* io.use has verified the token and set socket.userId; on connection the
\* socket joins its user's room.  One socket per user.
connection(userId) ==
    /\ rooms[userId] = Offline
    /\ rooms' = [rooms EXCEPT ![userId] = {RoomOfUser(userId)}]
    /\ UNCHANGED <<store, scan, inflight, lastResponse, nreq, failures, received>>

\* A socket event of a connected client is received.
AcceptEvent(userId) ==
    /\ rooms[userId] # Offline
    /\ nreq < MaxChatRequests
    /\ nreq' = nreq + 1

\* socket.on('join_chat'): the socket joins the room of the chat id it
\* names.
join_chat(userId, chatId) ==
    /\ AcceptEvent(userId)
    /\ rooms' = [rooms EXCEPT ![userId] = @ \cup {RoomOfChat(chatId)}]
    /\ UNCHANGED <<store, scan, inflight, lastResponse, failures, received>>

\* socket.on('send_message'): the message is built from the payload, with
\* the time as its id, and broadcast to the room; nothing is stored.
send_message(userId, chatId) ==
    /\ AcceptEvent(userId)
    /\ emit(RoomOfChat(chatId), NewMessage(chatId, userId, NoMessageId))
    /\ lastResponse' = SocketEvent("new_message", chatId, NoData)
    /\ UNCHANGED <<store, scan, inflight, failures, rooms>>

\* The payload of a task_status_changed event.
TaskStatusChanged(taskId, status) ==
    [event |-> "task_status_changed", task |-> taskId, status |-> status]

\* socket.on('task_update'): { taskId, status, userId } of the payload go
\* out to the room of userId as they came in.
task_update(sender, taskId, status, userId) ==
    /\ AcceptEvent(sender)
    /\ emit(RoomOfUser(userId), TaskStatusChanged(taskId, status))
    /\ lastResponse' = [actor |-> NullUser, op |-> "task_status_changed",
                        task |-> taskId, code |-> 0, error |-> "None"]
    /\ UNCHANGED <<store, scan, inflight, failures, rooms>>

\* The Prisma server: its sockets next to its chat post route.  Its other
\* routes emit nothing and leave the sockets as they are.
NextRealtime ==
    \/ \E u \in Users : connection(u)
    \/ \E u \in Users, c \in ChatIds : join_chat(u, c)
    \/ \E u \in Users, c \in ChatIds : send_message(u, c)
    \/ \E u \in Users, t \in TaskIds, s \in TaskStatus, x \in Users :
          task_update(u, t, s, x)
    \/ \E u \in Users, c \in ChatIds, content \in Contents : PostRead(u, c, content)
    \/ \E u \in Users : PostCreate(u)
    \/ \E u \in Users : PostTouch(u)
    \/ \E u \in Users : PostMembers(u)
    \/ \E u \in Users : PostNotify(u)

SpecRealtime == InitChat /\ [][NextRealtime]_vars

(* ------------------------- reading a behaviour ------------------------- *)

\* This step starts a request of user u for operation op on task t.
Issued(u, op, t) ==
    /\ nreq' = nreq + 1
    /\ inflight[u] = Idle
    /\ \/ inflight'[u].op = op /\ inflight'[u].task = t
       \/ /\ inflight' = inflight
          /\ lastResponse'.actor = u
          /\ lastResponse'.op = op
          /\ lastResponse'.task = t

\* This step ends a request of user u for operation op with a response.
Completes(u, op) ==
    /\ \/ inflight[u].op = op
       \/ inflight[u] = Idle /\ nreq' = nreq + 1 /\ inflight' = inflight
    /\ inflight'[u] = Idle
    /\ lastResponse'.op = op
    /\ lastResponse'.actor = u

HasAssignedNotification(ns, t) ==
    \E i \in DOMAIN ns : ns[i].type = "TASK_ASSIGNED" /\ ns[i].task_id = t

\* The assign of user a on task t has committed its transaction.
AssignCommitted(a, t) ==
    /\ inflight[a].op = "assign"
    /\ inflight[a].task = t
    /\ inflight[a].pc = "notify"

(* -------------------------------- claims ------------------------------- *)

\* C1: in every reachable state, for every task, status = OPEN if and only
\* if hustler_id is null.
C1_OpenIffNoHustler ==
    \A t \in DOMAIN tasks :
        (tasks[t].status = "OPEN") <=> (tasks[t].hustler_id = NullUser)

\* C2: when two different hustlers run assign concurrently on the same OPEN
\* task, at most one of them commits; the other, whose own writes did not
\* fail, is answered 400 not-open, and the task keeps the winner's
\* hustler_id.
C2_ConcurrentAssignOneWinner ==
    /\ [](\A a, b \in Users, t \in TaskIds :
            AssignCommitted(a, t) /\ AssignCommitted(b, t) => a = b)
    /\ [][\A a, b \in Users :
            ( /\ a # b
              /\ inflight[b].op = "assign"
              /\ inflight[b].pc = "tx"
              /\ AssignCommitted(a, inflight[b].task)
              /\ inflight'[b] # inflight[b]
              /\ failures' = failures )
            => /\ Completes(b, "assign")
               /\ lastResponse'.code = 400
               /\ lastResponse'.error = "NotOpen"
               /\ tasks' = tasks
               /\ tasks[inflight[b].task].hustler_id = a]_vars

\* C3: assign is all-or-nothing.  After any step of an assign request, if
\* the task is ASSIGNED to the requester then its chat, both membership
\* rows and the poster's TASK_ASSIGNED notification exist; and if the
\* request ends in failure the task is OPEN and has no chat.
C3_AssignAllOrNothing ==
    [][\A u \in Users :
        (inflight[u].op = "assign" /\ inflight'[u] # inflight[u])
        => LET t == inflight[u].task
           IN t \in DOMAIN tasks' =>
              /\ (tasks'[t].status = "ASSIGNED" /\ tasks'[t].hustler_id = u)
                 => /\ \E c \in ChatOfTask(chats', t) :
                          {tasks'[t].poster_id, u} \subseteq MembersOf(chat_members', c)
                    /\ HasAssignedNotification(notifications', t)
              /\ (Completes(u, "assign") /\ lastResponse'.code >= 400)
                 => /\ tasks'[t].status = "OPEN"
                    /\ ChatOfTask(chats', t) = {}]_vars

\* C4: once an assign of a task has succeeded, and as long as the task
\* exists, the task has exactly one chat and the members of that chat are
\* exactly the task's poster and hustler, two distinct users.
C4_OneChatTwoMembers ==
    \A t \in DOMAIN tasks :
        HasAssignedNotification(notifications, t)
        => /\ Cardinality(ChatOfTask(chats, t)) = 1
           /\ \A c \in ChatOfTask(chats, t) :
                 MembersOf(chat_members, c) = {tasks[t].poster_id, tasks[t].hustler_id}
           /\ tasks[t].poster_id # tasks[t].hustler_id

\* C5: once a task's hustler_id is set no step changes it to another user,
\* and an assign attempted on a task that is not OPEN is rejected with the
\* store unchanged.
C5_HustlerNeverReplaced ==
    [][/\ \A t \in DOMAIN tasks \cap DOMAIN tasks' :
             tasks[t].hustler_id # NullUser
             => tasks'[t].hustler_id \in {tasks[t].hustler_id, NullUser}
       /\ \A u \in Users, t \in DOMAIN tasks :
             (Issued(u, "assign", t) /\ tasks[t].status # "OPEN")
             => /\ Completes(u, "assign")
                /\ lastResponse'.code = 400
                /\ UNCHANGED store]_vars

AllowedEdges ==
    {<<"OPEN", "ASSIGNED">>}
      \cup ({"ASSIGNED", "IN_PROGRESS"} \X {"IN_PROGRESS", "COMPLETED", "CANCELLED"})

\* C6: every change of a task's status is an edge of the lifecycle,
\* OPEN to ASSIGNED made by assign and the others by updateStatus; an
\* updateStatus that read the task as OPEN ends rejected.
C6_OnlyLifecycleEdges ==
    [][/\ \A t \in DOMAIN tasks \cap DOMAIN tasks' :
             tasks'[t].status # tasks[t].status
             => /\ <<tasks[t].status, tasks'[t].status>> \in AllowedEdges
                /\ \E u \in Users :
                      /\ inflight[u].op =
                            (IF tasks[t].status = "OPEN" THEN "assign" ELSE "status")
                      /\ inflight[u].task = t
                      /\ inflight'[u] # inflight[u]
       /\ \A u \in Users :
             ( /\ inflight[u].op = "status"
               /\ inflight[u].snap.status = "OPEN"
               /\ failures' = failures
               /\ Completes(u, "status") )
             => lastResponse'.code = 400]_vars

\* C7: a successful updateStatus to COMPLETED credits the hustler with one
\* task and the task's budget; an updateStatus(COMPLETED) that read the task
\* as already COMPLETED, and none of whose writes failed, is rejected and
\* changes no counter.
C7_CompletedCreditsOnce ==
    [][\A u \in Users :
        ( /\ inflight[u].op = "status"
          /\ inflight[u].status = "COMPLETED"
          /\ inflight[u].snap.hustler_id # NullUser
          /\ failures' = failures
          /\ Completes(u, "status") )
        => LET r == inflight[u]
               h == r.snap.hustler_id
           IN IF r.snap.status = "COMPLETED"
              THEN lastResponse'.code = 400 /\ users' = users
              ELSE lastResponse'.code = 200
                   => users' = [users EXCEPT
                         ![h].tasks_completed = @ + 1,
                         ![h].total_earnings = @ + r.snap.budget]]_vars

\* C8: an updateStatus (with a status the route accepts) requested by a
\* user who is neither the poster nor the hustler of the task is answered
\* 403 in the step that reads the task, with the store unchanged, and no
\* updateStatus request of such a user ever gets past the permission check.
C8_StrangerCannotUpdateStatus ==
    /\ [](\A u \in Users :
            inflight[u].op = "status"
            => u \in {inflight[u].snap.poster_id, inflight[u].snap.hustler_id})
    /\ [][\A u \in Users, t \in DOMAIN tasks :
            ( /\ Issued(u, "status", t)
              /\ u \notin {tasks[t].poster_id, tasks[t].hustler_id}
              /\ ~(inflight' = inflight /\ lastResponse'.error = "Validation") )
            => /\ Completes(u, "status")
               /\ lastResponse'.code = 403
               /\ lastResponse'.error = "Unauthorized"
               /\ UNCHANGED store]_vars

\* C8 witness: a third user has been answered 403 for an updateStatus on a
\* task that has both a poster and a hustler.
C8_Witness ==
    /\ lastResponse.op = "status"
    /\ lastResponse.code = 403
    /\ lastResponse.task \in DOMAIN tasks
    /\ tasks[lastResponse.task].hustler_id # NullUser
    /\ lastResponse.actor \notin {tasks[lastResponse.task].poster_id,
                                  tasks[lastResponse.task].hustler_id}

\* C9: an assign by the task's poster is rejected with the store unchanged,
\* and in every reachable state a task's hustler is not its poster.
C9_NoSelfAssignment ==
    /\ [](\A t \in DOMAIN tasks :
            tasks[t].hustler_id # NullUser
            => tasks[t].hustler_id # tasks[t].poster_id)
    /\ [][\A u \in Users, t \in DOMAIN tasks :
            (Issued(u, "assign", t) /\ tasks[t].poster_id = u)
            => /\ Completes(u, "assign")
               /\ lastResponse'.code = 400
               /\ UNCHANGED store]_vars

\* C10: an assign by a CUSTOMER never ends in success, and every task that
\* has a hustler has one whose role is HUSTLER or BOTH.
C10_OnlyHustlersAssigned ==
    /\ [](\A t \in DOMAIN tasks :
            tasks[t].hustler_id # NullUser
            => users[tasks[t].hustler_id].user_type \in {"HUSTLER", "BOTH"})
    /\ [][\A u \in Users :
            (Completes(u, "assign") /\ users[u].user_type = "CUSTOMER")
            => /\ lastResponse'.code >= 400
               /\ tasks' = tasks]_vars

(* ---------------------- reading a chat behaviour ----------------------- *)

\* This step starts a request of user u for operation op on chat c.
IssuedChat(u, op, c) ==
    /\ nreq' = nreq + 1
    /\ inflight[u] = Idle
    /\ \/ inflight'[u].op = op /\ inflight'[u].chat = c
       \/ /\ inflight' = inflight
          /\ lastResponse'.op = op
          /\ lastResponse'.actor = u
          /\ lastResponse'.chat = c

\* This step ends a request of user u for operation op with a response.
CompletesChat(u, op) ==
    /\ \/ inflight[u].op = op
       \/ inflight[u] = Idle /\ nreq' = nreq + 1 /\ inflight' = inflight
    /\ inflight'[u] = Idle
    /\ lastResponse'.op = op
    /\ lastResponse'.actor = u

\* C11: a postMessage, listMessages or chat markRead requested by a user
\* who is not a member of the chat (with a body the route's validation
\* accepts, and no store failure) is answered 403 in the step that receives
\* it, returns no data and leaves the store unchanged.
C11_NonMemberForbidden ==
    [][\A u \in Users, c \in ChatIds, op \in {"post", "list", "markChatRead"} :
        ( /\ IssuedChat(u, op, c)
          /\ ~IsMember(c, u)
          /\ failures' = failures
          /\ ~(inflight' = inflight /\ lastResponse'.error = "Validation") )
        => /\ CompletesChat(u, op)
           /\ lastResponse'.code = 403
           /\ lastResponse'.data = NoData
           /\ UNCHANGED store]_vars

\* C12: every message that a step persists, through the HTTP route or the
\* socket event, has a sender who is a member of the message's chat at
\* that moment.
C12_SenderIsMember ==
    [][\A i \in DOMAIN messages' :
          i > Len(messages)
          => IsMember(messages'[i].chat_id, messages'[i].sender_id)]_vars

SeqRange(s) == {s[i] : i \in DOMAIN s}

NoDuplicates(s) == \A i, j \in DOMAIN s : i # j => s[i] # s[j]

\* C13: a client that fetches page 1, 2, ... of a chat with one page size
\* never receives a message twice, and when a short or empty page ends the
\* run it has received every message of the chat, whatever requests land
\* between two of its fetches.
C13_PagingCoversEachOnce ==
    /\ [](scan # NoScan => NoDuplicates(scan.got))
    /\ [][(scan' # scan /\ scan'.done)
          => SeqRange(scan'.got) = SeqRange(MessageIdsOf(messages', scan'.chat))]_vars

\* The rank of message id among the ids of its chat, the newest being 1.
RankFromNewest(ids, id) == Cardinality({x \in ids : x >= id})

Ascending(s) == \A i, j \in DOMAIN s : i < j => s[i] < s[j]

\* C14: a listMessages(chat, page p, limit N) that is answered 200 returns
\* exactly the messages of the chat whose rank from the newest lies in
\* (p-1)*N+1 .. p*N, in ascending order of creation.
C14_PageIsRankWindow ==
    [][\A u \in Users, c \in ChatIds :
        (IssuedChat(u, "list", c) /\ lastResponse'.code = 200)
        => LET d == lastResponse'.data
               ids == SeqRange(MessageIdsOf(messages, c))
           IN /\ SeqRange(d.messages) =
                    {id \in ids :
                        /\ RankFromNewest(ids, id) >= (d.page - 1) * d.limit + 1
                        /\ RankFromNewest(ids, id) <= d.page * d.limit}
              /\ Ascending(d.messages)]_vars

\* C14 witness: a second page of size one has come back with the older of
\* at least two messages, and a first page of size two with two messages.
C14_Witness ==
    /\ lastResponse.op = "list"
    /\ lastResponse.code = 200
    /\ Len(MessageIdsOf(messages, lastResponse.chat)) >= 2
    /\ \/ /\ lastResponse.data.page = 2
          /\ lastResponse.data.limit = 1
          /\ Len(lastResponse.data.messages) = 1
       \/ /\ lastResponse.data.page = 1
          /\ lastResponse.data.limit = 2
          /\ Len(lastResponse.data.messages) = 2

MemberIds(c) == {m.user_id : m \in {x \in chat_members : x.chat_id = c}}

\* C15: the step that answers 201 to a postMessage of user u in chat c has
\* appended exactly one NEW_MESSAGE notification of chat c for each member
\* of c other than u, and no other notification.
C15_NotifiesOtherMembers ==
    [][\A u \in Users :
        (CompletesChat(u, "post") /\ lastResponse'.code = 201)
        => LET c == lastResponse'.chat
               old == Len(notifications)
               added == SubSeq(notifications', old + 1, Len(notifications'))
           IN /\ Len(notifications') >= old
              /\ SubSeq(notifications', 1, old) = notifications
              /\ \A m \in MemberIds(c) \ {u} :
                    Cardinality({i \in DOMAIN added :
                                    /\ added[i].user_id = m
                                    /\ added[i].type = "NEW_MESSAGE"
                                    /\ added[i].chat_id = c}) = 1
              /\ \A i \in DOMAIN added :
                    /\ added[i].user_id \in MemberIds(c) \ {u}
                    /\ added[i].type = "NEW_MESSAGE"]_vars

\* C16: once a postMessage has inserted its message, the request is
\* answered 201 and the message stays persisted, whether or not the
\* realtime push throws.
C16_PushFailureKeepsSuccess ==
    [][\A u \in Users :
        ( /\ inflight[u].op = "post"
          /\ inflight[u].pc = "touch"
          /\ inflight'[u] = Idle )
        => /\ lastResponse'.code = 201
           /\ \E i \in DOMAIN messages' : messages'[i].id = inflight[u].message]_vars

ValidContent(s) == StrLen(s) >= 1 /\ StrLen(s) <= MaxContentLength

\* C17: the step that receives a postMessage changes nothing in the store,
\* and the request gets past validation only with a content that, trimmed,
\* has between 1 and 1000 characters; so a request with an empty or too
\* long content is rejected before any mutation.
C17_InvalidContentRejected ==
    [][\A u \in Users, c \in ChatIds :
        IssuedChat(u, "post", c)
        => /\ UNCHANGED store
           /\ inflight'[u] # Idle => ValidContent(inflight'[u].content)]_vars

(* ------------------ reading a users-router behaviour ------------------- *)

UsersHandlers ==
    {"getProfile", "updateProfile", "getUser", "listNotifications",
     "markRead", "markAllRead", "getStats", "none"}

\* This step receives a request of user u on the users router and answers it.
AnsweredUsers(u, method, path) ==
    /\ nreq' = nreq + 1
    /\ inflight[u] = Idle
    /\ inflight' = inflight
    /\ lastResponse'.op \in UsersHandlers
    /\ lastResponse'.actor = u
    /\ lastResponse'.method = method
    /\ lastResponse'.path = path

\* C18: a markAllRead of user u that is answered 200 leaves u with no
\* unread notification, and a GET /notifications of user u is answered 200
\* with an unreadCount equal to the number of u's unread notifications.
C18_UnreadCountMatches ==
    [][\A u \in Users :
        /\ ( /\ AnsweredUsers(u, "PUT", <<"notifications", "read-all">>)
             /\ lastResponse'.code = 200 )
           => unreadCount(notifications', u) = 0
        /\ AnsweredUsers(u, "GET", <<"notifications">>)
           => /\ lastResponse'.code = 200
              /\ lastResponse'.data.unreadCount = unreadCount(notifications, u)]_vars

MarkReadPath(n) == <<"notifications", ToString(n), "read">>

\* C19: no markRead of a notification gets past the ownership read unless
\* the requester is its recipient; a markRead answered in the step that
\* receives it is a 404 that changes no notification; and a step changes an
\* existing notification only by setting is_read, on behalf of a markRead
\* or markAllRead request of its recipient.
C19_OnlyRecipientMutates ==
    /\ [](\A u \in Users :
            inflight[u].op = "markRead"
            => notifications[inflight[u].id].user_id = u)
    /\ [][/\ \A u \in Users, n \in NotificationIds :
               AnsweredUsers(u, "PUT", MarkReadPath(n))
               => lastResponse'.code = 404 /\ notifications' = notifications
          /\ \A i \in DOMAIN notifications :
               notifications'[i] # notifications[i]
               => LET owner == notifications[i].user_id
                  IN /\ notifications'[i] =
                           [notifications[i] EXCEPT !.is_read = TRUE]
                     /\ \/ /\ inflight[owner].op = "markRead"
                           /\ inflight[owner].id = i
                           /\ inflight'[owner] = Idle
                        \/ AnsweredUsers(owner, "PUT",
                                         <<"notifications", "read-all">>)]_vars

\* C19 witness: after a markAllRead of its recipient has set notification n
\* read while another user held an unread notification, a markRead of n by
\* a user who is not its recipient has been answered 404.
C19_Witness ==
    /\ lastResponse.op = "markRead"
    /\ lastResponse.code = 404
    /\ \E n \in DOMAIN notifications :
          /\ lastResponse.path = MarkReadPath(n)
          /\ notifications[n].user_id # lastResponse.actor
          /\ notifications[n].is_read
          /\ \E k \in DOMAIN notifications :
                /\ notifications[k].user_id # notifications[n].user_id
                /\ ~notifications[k].is_read

IsRead(m) == "is_read" \in DOMAIN m /\ m.is_read

\* C20: a chat markRead of member u on chat c (no store failure) is
\* answered 200 and sets is_read on exactly the messages of c whose sender
\* is not u: those are read afterwards and every other message is as it
\* was.
C20_MarksOthersMessagesRead ==
    [][\A u \in Users, c \in ChatIds :
        ( /\ IssuedChat(u, "markChatRead", c)
          /\ IsMember(c, u)
          /\ failures' = failures )
        => /\ lastResponse'.code = 200
           /\ Len(messages') = Len(messages)
           /\ \A i \in DOMAIN messages :
                 IF messages[i].chat_id = c /\ messages[i].sender_id # u
                 THEN IsRead(messages'[i])
                 ELSE messages'[i] = messages[i]]_vars

(* ------------------------ delete, ensureChat, frames -------------------- *)

\* C21: a delete of task t requested by user u is answered with success
\* only when u is the poster of t and t is OPEN; in every other case it is
\* rejected and the task, its chat, the chat's members and its messages are
\* as they were.
C21_DeleteOnlyOpenByPoster ==
    [][\A u \in Users, t \in DOMAIN tasks :
        ( /\ Issued(u, "delete", t)
          /\ ~(tasks[t].poster_id = u /\ tasks[t].status = "OPEN") )
        => /\ lastResponse'.code >= 400
           /\ t \in DOMAIN tasks'
           /\ tasks'[t] = tasks[t]
           /\ UNCHANGED <<chats, chat_members, messages>>]_vars

\* This step ends a getOrCreateChat call of user u for task t.
Returns(u, t) ==
    /\ lastResponse' # lastResponse \/ inflight'[u] # inflight[u]
    /\ inflight'[u] = Idle
    /\ lastResponse'.op = "getOrCreateChat"
    /\ lastResponse'.actor = u
    /\ lastResponse'.task = t
    /\ \/ inflight[u].op = "getOrCreateChat"
       \/ inflight[u] = Idle /\ nreq' = nreq + 1 /\ inflight' = inflight

\* C22: a getOrCreateChat for a task that has a chat returns that chat and
\* leaves chats and chat_members unchanged; a getOrCreateChat of user u
\* that found no chat and whose insert meets no store failure leaves the
\* task, if it exists, with exactly one chat, and when the task still had
\* no chat at the insert, that chat is the one returned and u is a member
\* of it exactly once.
C22_EnsureChatIdempotent ==
    [][\A u \in Users, t \in DOMAIN tasks :
        Returns(u, t)
        => /\ inflight[u] = Idle
              => /\ lastResponse'.chat \in {c.id : c \in ChatOfTask(chats, t)}
                 /\ UNCHANGED <<chats, chat_members>>
           /\ (inflight[u] # Idle /\ failures' = failures)
              => /\ Cardinality(ChatOfTask(chats', t)) = 1
                 /\ ChatOfTask(chats, t) = {}
                    => \A c \in ChatOfTask(chats', t) :
                          /\ lastResponse'.chat = c.id
                          /\ Cardinality({m \in chat_members' :
                                m.chat_id = c.id /\ m.user_id = u}) = 1]_vars

\* C23: no step changes the poster_id or the budget of a task that exists
\* before and after it.
C23_PosterAndBudgetImmutable ==
    [][\A t \in DOMAIN tasks \cap DOMAIN tasks' :
          /\ tasks'[t].poster_id = tasks[t].poster_id
          /\ tasks'[t].budget = tasks[t].budget]_vars

\* The tasks a step creates.
Created == DOMAIN tasks' \ DOMAIN tasks

\* C25: the step in which a create of user u succeeds raises u's
\* tasks_posted by exactly 1, and no other step changes any tasks_posted.
C25_TasksPostedCountsCreates ==
    [][\A u \in Users :
        users'[u].tasks_posted =
            IF \E t \in Created : tasks'[t].poster_id = u
            THEN users[u].tasks_posted + 1
            ELSE users[u].tasks_posted]_vars

\* User u has an updateStatus(COMPLETED) in flight, past its read, on task
\* t, which it read as ASSIGNED or IN_PROGRESS with u as a party.
Completing(u, t) ==
    /\ inflight[u].op = "status"
    /\ inflight[u].task = t
    /\ inflight[u].status = "COMPLETED"
    /\ inflight[u].snap.status \in {"ASSIGNED", "IN_PROGRESS"}
    /\ u \in {inflight[u].snap.poster_id, inflight[u].snap.hustler_id}

\* C26: when the poster and the hustler of a task both have an
\* updateStatus(COMPLETED) in flight that read the task as ASSIGNED or
\* IN_PROGRESS, at most one of the two requests gets to the step that
\* credits the hustler, so that tasks_completed rises by 1 and
\* total_earnings by the budget once for the two.
C26_ConcurrentCompleteCreditsOnce ==
    \A a, b \in Users, t \in TaskIds :
        (a # b /\ Completing(a, t) /\ Completing(b, t))
        => ~(inflight[a].pc = "credit" /\ inflight[b].pc = "credit")

CompletedBy(u) ==
    {t \in DOMAIN tasks : tasks[t].status = "COMPLETED" /\ tasks[t].hustler_id = u}

RECURSIVE SumOfBudgets(_)
SumOfBudgets(ts) ==
    IF ts = {} THEN 0
    ELSE LET t == CHOOSE x \in ts : TRUE
         IN tasks[t].budget + SumOfBudgets(ts \ {t})

\* C27: in every reachable state each user's tasks_completed is the number
\* of COMPLETED tasks of which the user is the hustler, and total_earnings
\* is the sum of the budgets of those tasks.
C27_CountersMatchCompletedTasks ==
    \A u \in Users :
        /\ users[u].tasks_completed = Cardinality(CompletedBy(u))
        /\ users[u].total_earnings = SumOfBudgets(CompletedBy(u))

\* C28: a postMessage is answered with an error only from a step that
\* comes before its message insert has gone through, and that step leaves
\* the store unchanged: no message, no chat.updated_at and no notification
\* of the request is in the store.
C28_PostErrorLeavesStoreUnchanged ==
    [][\A u \in Users :
        (CompletesChat(u, "post") /\ lastResponse'.code >= 400)
        => /\ UNCHANGED store
           /\ inflight[u] # Idle => inflight[u].pc \in {"create", "insert"}]_vars

(* ------------------------- reading the sockets -------------------------- *)

\* The events of one kind that a step delivers to the socket of user k.
Delivered(k, event) ==
    {e \in received'[k] \ received[k] : e.event = event}

\* C24: a new_message event of chat c is delivered only to sockets that
\* are in the room of chat c, and the step that answers 201 to a
\* postMessage in chat c has left the new_message of that message with
\* every socket in the room of c, the sender's included.
C24_NewMessageGoesToTheRoom ==
    [][/\ \A k \in Users :
             \A e \in Delivered(k, "new_message") :
                RoomOfChat(e.chat) \in rooms[k]
       /\ \A u \in Users :
             (CompletesChat(u, "post") /\ lastResponse'.code = 201)
             => \A k \in InRoom(RoomOfChat(lastResponse'.chat)) :
                   NewMessage(lastResponse'.chat, u, lastResponse'.data)
                      \in received'[k]]_vars

\* C29: a socket joins the room of chat c only if its user is a member of
\* c, and a new_message of chat c is delivered only to sockets of members
\* of c.
C29_OnlyMembersJoinAndReceive ==
    [][\A k \in Users, c \in ChatIds :
          /\ RoomOfChat(c) \in rooms'[k] \ rooms[k] => IsMember(c, k)
          /\ (\E e \in Delivered(k, "new_message") : e.chat = c)
             => IsMember(c, k)]_vars

\* C30: a task_status_changed event is delivered only for a task whose
\* stored status is the status the event carries, and only to the socket
\* of the task's poster or hustler.
C30_StatusEventsFollowTheStore ==
    [][\A k \in Users :
          \A e \in Delivered(k, "task_status_changed") :
             /\ e.task \in DOMAIN tasks
             /\ tasks[e.task].status = e.status
             /\ k \in {tasks[e.task].poster_id, tasks[e.task].hustler_id}]_vars
=============================================================================
